---- MODULE Spec2Model ----
(***************************************************************************)
(* A model of excel_writer.py: create_workbook (table population and       *)
(* formatting), format_totals (totals-row highlighting) and the module     *)
(* level save-retry loop.                                                  *)
(*                                                                         *)
(* Text is a sequence of one-character strings, so that title-casing,      *)
(* substring containment and character length are computed, not assumed.   *)
(* Floating point column widths are kept in tenths: (L + 2) * 1.4 is       *)
(* stored as (L + 2) * 14.                                                 *)
(***************************************************************************)
EXTENDS Integers, Sequences, FiniteSets, TLC

\* ---------------------------------------------------------------- bounds
MaxRows == 2
MaxCols == 2
MaxDirectives == 1

\* ------------------------------------------------------------ characters
Lowers == <<"a","b","c","d","e","f","g","h","i","j","k","l","m",
            "n","o","p","q","r","s","t","u","v","w","x","y","z">>
Uppers == <<"A","B","C","D","E","F","G","H","I","J","K","L","M",
            "N","O","P","Q","R","S","T","U","V","W","X","Y","Z">>
Digits == <<"0","1","2","3","4","5","6","7","8","9">>

Range(s) == {s[i] : i \in DOMAIN s}
IsLower(c) == c \in Range(Lowers)
IsUpper(c) == c \in Range(Uppers)
IsCased(c) == IsLower(c) \/ IsUpper(c)
IndexOf(c, s) == CHOOSE i \in DOMAIN s : s[i] = c
ToUpper(c) == IF IsLower(c) THEN Uppers[IndexOf(c, Lowers)] ELSE c
ToLower(c) == IF IsUpper(c) THEN Lowers[IndexOf(c, Uppers)] ELSE c

\* Capitalizing the first letter of each word and nothing else.
TitleNoLower(s) ==
    [i \in DOMAIN s |->
        IF IsCased(s[i]) /\ (i = 1 \/ ~IsCased(s[i-1])) THEN ToUpper(s[i]) ELSE s[i]]

\* str.title(): a cased character is upper-cased when it follows an uncased
\* character (or starts the string) and lower-cased when it follows a cased one.
Title(s) ==
    [i \in DOMAIN s |->
        IF ~IsCased(s[i]) THEN s[i]
        ELSE IF i = 1 \/ ~IsCased(s[i-1]) THEN ToUpper(s[i]) ELSE ToLower(s[i])]

\* s.startswith(sub)
StartsWith(sub, s) ==
    /\ Len(sub) <= Len(s)
    /\ \A j \in 1..Len(sub) : s[j] = sub[j]

\* "sub in s" on Python strings
Contains(sub, s) ==
    \E k \in 0..(Len(s) - Len(sub)) :
        \A j \in 1..Len(sub) : s[k + j] = sub[j]

Marker == <<"T","o","t","a","l">>

\* ---------------------------------------------------------------- values
\* A value is text (s), a float kept in tenths (n), a date/time kept as
\* yyyymmdd (n), or None.
StrVal(s)  == [t |-> "str",  s |-> s,    n |-> 0]
NumVal(n)  == [t |-> "num",  s |-> <<>>, n |-> n]
DateVal(n) == [t |-> "date", s |-> <<>>, n |-> n]
NoneVal    == [t |-> "none", s |-> <<>>, n |-> 0]

RECURSIVE NumDigits(_)
NumDigits(n) == IF n < 10 THEN 1 ELSE 1 + NumDigits(n \div 10)

Abs(n) == IF n < 0 THEN -n ELSE n

\* len(str(v))
StrLen(v) ==
    CASE v.t = "str"  -> Len(v.s)
      [] v.t = "num"  -> (IF v.n < 0 THEN 1 ELSE 0) + NumDigits(Abs(v.n) \div 10) + 2
      [] v.t = "date" -> 19
      [] OTHER        -> 4

TwoDigits(n) == <<Digits[((n \div 10) % 10) + 1], Digits[(n % 10) + 1]>>

\* strftime("%m/%d/%Y") of a date/time value
Strftime(v) ==
    LET y == v.n \div 10000
        m == (v.n \div 100) % 100
        d == v.n % 100
    IN StrVal(TwoDigits(m) \o <<"/">> \o TwoDigits(d) \o <<"/">>
              \o TwoDigits(y \div 100) \o TwoDigits(y % 100))

\* --------------------------------------------------------------- dataset
\* A DataFrame: column names, column dtypes, column values, and n = len(df).
\* The columns a dataset is built from (name, dtype):
Columns == <<
    [name |-> <<"t","o","t","a","l">>, kind |-> "text"],
    [name |-> <<"a","B">>,             kind |-> "num"],
    [name |-> <<"A","b">>,             kind |-> "date"],
    [name |-> <<"T","o","t","a","l">>, kind |-> "num"] >>

TextVals == { StrVal(<<"T","o","t","a","l">>),
              StrVal(<<"N","e","t"," ","T","o","t","a","l">>),
              StrVal(<<"S","u","b","t","o","t","a","l">>) }

NumSamples  == <<-12000, 50000, -1505>>
DateSamples == <<20231013, 20231014, 20231015>>
NumAt(r)  == NumVal(NumSamples[((r - 1) % Len(NumSamples)) + 1])
DateAt(r) == DateVal(DateSamples[((r - 1) % Len(DateSamples)) + 1])

ColSeqs ==
    { cs \in UNION { [1..c -> DOMAIN Columns] : c \in 1..MaxCols } :
        \A i, j \in DOMAIN cs : i # j => cs[i] # cs[j] }

HasText(cs) == \E i \in DOMAIN cs : Columns[cs[i]].kind = "text"

MakeDf(cs, n, labels) ==
    [ names |-> [i \in DOMAIN cs |-> Columns[cs[i]].name],
      kinds |-> [i \in DOMAIN cs |-> Columns[cs[i]].kind],
      vals  |-> [i \in DOMAIN cs |->
                    [r \in 1..n |->
                        CASE Columns[cs[i]].kind = "text" -> labels[r]
                          [] Columns[cs[i]].kind = "num"  -> NumAt(r)
                          [] OTHER                        -> DateAt(r)]],
      n     |-> n ]

Datasets ==
    { MakeDf(x[1], x[2], x[3]) :
        x \in UNION { UNION { {<<cs, n, l>> :
                                 l \in IF HasText(cs) THEN [1..n -> TextVals]
                                       ELSE {[r \in 1..n |-> NoneVal]}} :
                              n \in 0..MaxRows } : cs \in ColSeqs } }

\* **formatted_columns: an ordered mapping column name -> format
KeyNames == { Columns[i].name : i \in DOMAIN Columns }
Formats  == {"date", "currency"}

DirectiveSeqs ==
    { f \in UNION { [1..k -> [key : KeyNames, format : Formats]] : k \in 0..MaxDirectives } :
        \A i, j \in DOMAIN f : i # j => f[i].key # f[j].key }

\* ------------------------------------------------------------- worksheet
DefaultFont == [bold |-> FALSE, italic |-> FALSE]
DefaultFill == [fill_type |-> "none", start_color |-> "00000000"]
GeneralFormat  == "General"
CurrencyFormat == "\"$\"#,##0.00_-"
TotalsFont == [bold |-> TRUE, italic |-> FALSE]
TotalsFill == [fill_type |-> "solid", start_color |-> "b7aea5"]
SheetTitle == "Sample_Sheet"

NewCell(v) == [value |-> v, font |-> DefaultFont, fill |-> DefaultFill,
               number_format |-> GeneralFormat]

\* Worksheets a caller may pass in: a fresh one, or one that already holds rows.
PreStyled(v) == [NewCell(v) EXCEPT
                    !.font = [bold |-> FALSE, italic |-> TRUE],
                    !.fill = [fill_type |-> "solid", start_color |-> "ffff00"]]

PreSheets ==
    { <<>>,
      << <<NewCell(StrVal(<<"R","e","n","t">>))>>,
         <<PreStyled(StrVal(<<"R","e","n","t">>))>>,
         <<PreStyled(StrVal(<<"T","o","t","a","l">>))>> >> }

MaxRowOf(rows)    == IF rows = <<>> THEN 1 ELSE Len(rows)
MaxColumnOf(rows) == IF rows = <<>> THEN 1 ELSE Len(rows[1])

GetColumnLetter(i) == Uppers[i]
ColumnIndex(l)     == IndexOf(l, Uppers)

Max(a, b) == IF a > b THEN a ELSE b

\* ws.append(row) for each row of `new`: the rows go below the last used row;
\* cells never written read as empty cells.
AppendRows(rows, new) ==
    LET w   == Max(IF rows = <<>> THEN 0 ELSE Len(rows[1]),
                   IF new = <<>> THEN 0 ELSE Len(new[1]))
        Pad(row) == [c \in 1..w |-> IF c <= Len(row) THEN row[c] ELSE NewCell(NoneVal)]
    IN [r \in 1..(Len(rows) + Len(new)) |->
            IF r <= Len(rows) THEN Pad(rows[r])
            ELSE Pad([c \in DOMAIN new[r - Len(rows)] |-> NewCell(new[r - Len(rows)][c])])]

\* dataframe_to_rows(df, index=False, header=True)
DataframeToRows(d) ==
    [r \in 1..(d.n + 1) |->
        [c \in DOMAIN d.names |->
            IF r = 1 THEN StrVal(d.names[c]) ELSE d.vals[c][r - 1]]]

\* ----------------------------------------------------------------- state
VARIABLES
    phase,    \* "call", "table", "save", "prompt", "done" or "failed"
    err,      \* the unhandled exception that stopped the run, or "none"
    df,       \* the caller's DataFrame (mutated in place)
    df0,      \* the DataFrame as the caller passed it in
    fmt,      \* formatted_columns
    ws,       \* the worksheet's cells, row by row
    ws0,      \* the worksheet as the caller passed it in
    wsPrev,   \* the worksheet when the latest format_totals call started
    width,    \* ws.column_dimensions[letter].width, in tenths
    tables,   \* ws.tables
    hl,       \* number of format_totals calls made
    saving,   \* the loop flag
    out,      \* lines printed
    saved,    \* Sample.xlsx was written
    last,     \* outcome of the latest wb.save: "none", "ok", "locked", "error"
    answer    \* the latest line read by input(), or "none"

vars == <<phase, err, df, df0, fmt, ws, ws0, wsPrev, width, tables, hl,
          saving, out, saved, last, answer>>

MaxHighlights == 2
Answers == {"y", "n", "Y"}

Init ==
    /\ phase = "call"
    /\ err = "none"
    /\ df \in Datasets
    /\ df0 = df
    /\ fmt \in DirectiveSeqs
    /\ ws \in PreSheets
    /\ ws0 = ws
    /\ wsPrev = ws
    /\ width = <<>>
    /\ tables = {}
    /\ hl = 0
    /\ saving = FALSE
    /\ out = <<>>
    /\ saved = FALSE
    /\ last = "none"
    /\ answer = "none"

\* ------------------------------------------------------- create_workbook
\* df.columns = df.columns.str.title()
TitleColumns(d) == [d EXCEPT !.names = [i \in DOMAIN d.names |-> Title(d.names[i])]]

\* positions of the columns labelled col
Locs(d, col) == { j \in DOMAIN d.names : d.names[j] = col }

\* One pass of the loop over formatted_columns.items(), from directive i on.
\* nse is the exception raised when get_loc answers with a slice or a mask
\* (a duplicated label) and that answer meets "+ 1" / get_column_letter.
RECURSIVE ApplyDirectives(_, _, _, _)
ApplyDirectives(d, f, i, nse) ==
    IF i > Len(f) THEN [df |-> d, cur |-> <<>>, err |-> "none"]
    ELSE
      LET col == f[i].key
          at  == Locs(d, col)
          j   == CHOOSE x \in at : TRUE
          Stop(e) == [df |-> d, cur |-> <<>>, err |-> e]
      IN IF f[i].format = "date" THEN
            IF at = {} THEN Stop("KeyError")
            ELSE IF Cardinality(at) > 1 \/ d.kinds[j] # "date" THEN Stop("AttributeError")
            ELSE ApplyDirectives(
                    [d EXCEPT !.vals[j]  = [r \in DOMAIN d.vals[j] |-> Strftime(d.vals[j][r])],
                              !.kinds[j] = "text"],
                    f, i + 1, nse)
         ELSE IF f[i].format = "currency" THEN
            IF at = {} THEN Stop("KeyError")
            ELSE IF Cardinality(at) > 1 THEN Stop(nse)
            ELSE LET rest == ApplyDirectives(d, f, i + 1, nse)
                 IN [rest EXCEPT !.cur = <<GetColumnLetter((j - 1) + 1)>> \o rest.cur]
         ELSE ApplyDirectives(d, f, i + 1, nse)

\* Table(displayName=ws.title, ref=f"A1:{letter(ws.max_column)}{len(df)+1}", ...)
MakeTable(rows, d) ==
    [ displayName |-> SheetTitle,
      ref |-> [c1 |-> "A", r1 |-> 1,
               c2 |-> GetColumnLetter(MaxColumnOf(rows)), r2 |-> d.n + 1],
      headerRowCount |-> 1,
      totalsRowCount |-> 0 ]

\* The format one column to the right of the recorded one.
ApplyCurrencyShifted(rows, cur) ==
    [r \in DOMAIN rows |->
        [c \in DOMAIN rows[r] |->
            IF \E k \in DOMAIN cur : ColumnIndex(cur[k]) + 1 = c
            THEN [rows[r][c] EXCEPT !.number_format = CurrencyFormat]
            ELSE rows[r][c]]]

\* for i in currency_columns: for cell in ws[i]: cell.number_format = ...
ApplyCurrency(rows, cur) ==
    [r \in DOMAIN rows |->
        [c \in DOMAIN rows[r] |->
            IF \E k \in DOMAIN cur : ColumnIndex(cur[k]) = c
            THEN [rows[r][c] EXCEPT !.number_format = CurrencyFormat]
            ELSE rows[r][c]]]

\* The inner loop of the width pass over the cells of one column, top down:
\* len(str(value)) decides, len(value) is stored, an exception skips the cell.
RECURSIVE MaxLength(_, _, _, _)
MaxLength(rows, c, r, m) ==
    IF r > MaxRowOf(rows) THEN m
    ELSE LET v == rows[r][c].value
         IN MaxLength(rows, c, r + 1,
                IF StrLen(v) > m
                THEN (IF v.t = "str" THEN Len(v.s) ELSE m)
                ELSE m)

AdjustWidths(rows) ==
    [l \in {GetColumnLetter(c) : c \in 1..MaxColumnOf(rows)} |->
        (MaxLength(rows, ColumnIndex(l), 1, 0) + 2) * 14]

CreateWorkbook ==
    /\ phase = "call"
    /\ \E nse \in {"TypeError", "ValueError"} :
        LET res == ApplyDirectives(TitleColumns(df), fmt, 1, nse)
        IN IF res.err # "none"
           THEN /\ phase' = "failed"
                /\ err' = res.err
                /\ df' = res.df
                /\ UNCHANGED <<ws, width, tables>>
           ELSE LET rows1 == AppendRows(ws, DataframeToRows(res.df))
                    rows2 == ApplyCurrency(rows1, res.cur)
                IN /\ phase' = "table"
                   /\ err' = "none"
                   /\ df' = res.df
                   /\ ws' = rows2
                   /\ tables' = tables \cup {MakeTable(rows1, res.df)}
                   /\ width' = AdjustWidths(rows2)
    /\ UNCHANGED <<df0, fmt, ws0, wsPrev, hl, saving, out, saved, last, answer>>

\* --------------------------------------------------------- format_totals
\* Flipping the weight instead of setting it.
HighlightCellToggle(cell) ==
    [cell EXCEPT !.font = [bold |-> ~cell.font.bold, italic |-> FALSE], !.fill = TotalsFill]

\* cell.font = Font(bold=True); cell.fill = PatternFill("solid", "b7aea5")
HighlightCell(cell) == [cell EXCEPT !.font = TotalsFont, !.fill = TotalsFill]

\* The first row, from row 2 on, whose column-A value does not support "in"
\* (0 when there is none); the loop stops there with a TypeError.
FirstUnsearchable(rows) ==
    LET bad == { r \in 2..MaxRowOf(rows) : r <= Len(rows) /\ rows[r][1].value.t # "str" }
    IN IF bad = {} THEN 0 ELSE CHOOSE r \in bad : \A q \in bad : r <= q

HighlightRows(rows) ==
    LET stop == FirstUnsearchable(rows)
    IN [r \in DOMAIN rows |->
          IF /\ r >= 2
             /\ (stop = 0 \/ r < stop)
             /\ Contains(Marker, rows[r][1].value.s)
          THEN [c \in DOMAIN rows[r] |-> HighlightCell(rows[r][c])]
          ELSE rows[r]]

FormatTotals ==
    /\ phase = "table"
    /\ hl < MaxHighlights
    /\ wsPrev' = ws
    /\ ws' = HighlightRows(ws)
    /\ hl' = hl + 1
    /\ IF FirstUnsearchable(ws) # 0
       THEN phase' = "failed" /\ err' = "TypeError"
       ELSE UNCHANGED <<phase, err>>
    /\ UNCHANGED <<df, df0, fmt, ws0, width, tables, saving, out, saved, last, answer>>

\* -------------------------------------------------------------- save loop
\* Retrying on anything but a plain no.
RetryAnswerNotN(a) == a # "n"

\* input(...) == "y": the operator asks for another attempt
RetryAnswer(a) == a = "y"

StartSaving ==
    /\ phase = "table"
    /\ hl >= 1
    /\ saving' = TRUE
    /\ phase' = "save"
    /\ UNCHANGED <<err, df, df0, fmt, ws, ws0, wsPrev, width, tables, hl, out, saved, last, answer>>

\* A save that succeeds without its notice.
SaveOkSilent ==
    /\ phase = "save" /\ saving
    /\ saved' = TRUE
    /\ last' = "ok"
    /\ saving' = FALSE
    /\ phase' = "done"
    /\ UNCHANGED <<err, df, df0, fmt, ws, ws0, wsPrev, width, tables, hl, out, answer>>

\* wb.save returns: the else branch
SaveOk ==
    /\ phase = "save" /\ saving
    /\ saved' = TRUE
    /\ last' = "ok"
    /\ out' = Append(out, "File saved")
    /\ saving' = FALSE
    /\ phase' = "done"
    /\ UNCHANGED <<err, df, df0, fmt, ws, ws0, wsPrev, width, tables, hl, answer>>

\* wb.save raises PermissionError: the handler asks the operator
SaveLocked ==
    /\ phase = "save" /\ saving
    /\ last' = "locked"
    /\ phase' = "prompt"
    /\ UNCHANGED <<err, df, df0, fmt, ws, ws0, wsPrev, width, tables, hl, saving, out, saved, answer>>

\* wb.save raises anything else: nothing catches it
SaveError ==
    /\ phase = "save" /\ saving
    /\ last' = "error"
    /\ err' = "OSError"
    /\ phase' = "failed"
    /\ UNCHANGED <<df, df0, fmt, ws, ws0, wsPrev, width, tables, hl, saving, out, saved, answer>>

\* input(...) returns a line
Answer ==
    /\ phase = "prompt"
    /\ \E a \in Answers :
        /\ answer' = a
        /\ IF RetryAnswer(a)
           THEN /\ phase' = "save"
                /\ UNCHANGED <<out, saving>>
           ELSE /\ out' = Append(out, "File not saved")
                /\ saving' = FALSE
                /\ phase' = "done"
    /\ UNCHANGED <<err, df, df0, fmt, ws, ws0, wsPrev, width, tables, hl, saved, last>>

Next ==
    \/ CreateWorkbook
    \/ FormatTotals
    \/ StartSaving
    \/ SaveOk
    \/ SaveLocked
    \/ SaveError
    \/ Answer

Spec == Init /\ [][Next]_vars

\* Inside the loop the interpreter always runs the next statement (wb.save
\* returns or raises, input returns); which outcome wb.save has and what the
\* operator types is not constrained.
SaveLoopNext == SaveOk \/ SaveLocked \/ SaveError \/ Answer

FairSpec == Init /\ [][Next]_vars /\ WF_vars(SaveLoopNext)

\* ---------------------------------------------------------------- claims
\* create_workbook returned normally (it adds its table only then)
Populated == tables # {}
AllKeysNameColumns == \A i \in DOMAIN fmt : fmt[i].key \in Range(df0.names)
DateKeysNameDates ==
    \A i \in DOMAIN fmt : fmt[i].format = "date" =>
        \A c \in DOMAIN df0.names : df0.names[c] = fmt[i].key => df0.kinds[c] = "date"
\* the row of the worksheet that holds record r of the dataset
DataRow(r) == Len(ws0) + 1 + r

\* C1: for every dataset and every directive set whose keys are all column
\* names of the dataset as passed in (date directives naming date columns),
\* once create_workbook has run on an initially empty worksheet the worksheet
\* has len(D)+1 rows and as many columns as D.
C1_RowAndColumnCount ==
    (phase # "call" /\ ws0 = <<>> /\ AllKeysNameColumns /\ DateKeysNameDates)
        => /\ Len(ws) = df0.n + 1
           /\ \A r \in DOMAIN ws : Len(ws[r]) = Len(df0.names)

IsTitleCaseOf(h, name) ==
    /\ Len(h) = Len(name)
    /\ \A i \in 1..Len(name) :
        LET starts == i = 1 \/ ~IsCased(name[i - 1])
        IN /\ ~IsCased(name[i]) => h[i] = name[i]
           /\ IsCased(name[i]) /\ starts  => IsUpper(h[i]) /\ ToLower(h[i]) = ToLower(name[i])
           /\ IsCased(name[i]) /\ ~starts => IsLower(h[i]) /\ ToLower(name[i]) = h[i]

DateDirected(c) ==
    \E i \in DOMAIN fmt : fmt[i].format = "date" /\ fmt[i].key = df.names[c]

HasMarker(s) == \E k \in 1..Len(s) : k + 4 <= Len(s) /\ SubSeq(s, k, k + 4) = Marker
SameStyle(a, b) == a.font = b.font /\ a.fill = b.fill
AllTextFirstColumn(rows) == \A r \in DOMAIN rows : rows[r][1].value.t = "str"

C4_HighlightIdempotent ==
    hl >= 2 => ws = wsPrev

C4_Witness ==
    /\ hl = 2 /\ phase = "table"
    /\ \E r \in 2..Len(ws) : ws[r][1].font = TotalsFont /\ ws[r][1].fill = TotalsFill
    /\ \E r \in 1..Len(ws0) : HasMarker(ws0[r][1].value.s) /\ ws0[r][1].font.italic
                               /\ ~ws[r][1].font.italic

\* C5: a save attempt that fails on the lock is followed by one prompt and
\* prints nothing; the answer 'y' is followed by a save attempt and prints
\* nothing; any other answer prints "File not saved" and ends the loop; a
\* save that succeeds prints "File saved" and ends the loop; nothing happens
\* after the loop has ended; a finished run has printed exactly one notice,
\* "File saved" only when the last attempt succeeded.
C5_Step ==
    /\ (phase = "save" /\ last' = "locked")
          => phase' = "prompt" /\ out' = out /\ saved' = saved
    /\ (phase = "save" /\ last' = "ok")
          => phase' = "done" /\ out' = Append(out, "File saved") /\ saved'
    /\ (phase = "prompt" /\ answer' = "y")
          => phase' = "save" /\ out' = out /\ last' = "locked"
    /\ (phase = "prompt" /\ answer' # "y")
          => phase' = "done" /\ out' = Append(out, "File not saved") /\ saved' = saved
    /\ phase = "done" => vars' = vars
    /\ phase' = "done"
          => /\ Len(out') = 1
             /\ out'[1] \in {"File saved", "File not saved"}
             /\ (out'[1] = "File saved") <=> (last' = "ok")
             /\ saved' <=> (last' = "ok")
             /\ ~saving'
    /\ phase' \in {"save", "prompt"} => out' = <<>> /\ saving'

C5_SaveRetryProtocol == [][C5_Step]_vars

C5_Witness ==
    /\ phase = "done" /\ answer = "y" /\ last = "ok" /\ out = <<"File saved">>

\* C6: create_workbook, unless it fails otherwise, fails with a lookup failure
\* exactly when some directive key is not a column name of the dataset as
\* passed in.
C6_LookupFailureIffMissingKey ==
    (err = "KeyError" \/ Populated)
        => ((err = "KeyError") <=> ~AllKeysNameColumns)

\* C7: when create_workbook has returned, in every column named by a currency
\* directive every cell of rows 2..len(D)+1 and every data cell carries the
\* currency format, and the value of every data cell, and of the dataset
\* column, is the source value.
C7_CurrencyFormatKeepsValues ==
    Populated =>
        \A i \in DOMAIN fmt : fmt[i].format = "currency" =>
            \A c \in DOMAIN df.names : df.names[c] = fmt[i].key =>
                /\ \A r \in 2..(df0.n + 1) : ws[r][c].number_format = CurrencyFormat
                /\ \A r \in 1..df0.n :
                    /\ ws[DataRow(r)][c].number_format = CurrencyFormat
                    /\ ws[DataRow(r)][c].value = df0.vals[c][r]
                    /\ df.vals[c][r] = df0.vals[c][r]

C7_Witness ==
    /\ Populated /\ df0.n >= 2 /\ Len(df0.names) >= 2
    /\ \E i \in DOMAIN fmt : fmt[i].format = "currency" /\ fmt[i].key = df.names[2]
    /\ ws[DataRow(1)][2].value = NumVal(-12000)
    /\ ws[DataRow(1)][1].number_format = GeneralFormat

\* C8: the table declared by create_workbook spans exactly the cells this
\* call wrote: the header row and the len(D) data rows, all of D's columns,
\* with header-row count 1 and totals-row count 0.
C8_TableSpansWrittenCells ==
    Populated =>
        \A t \in tables :
            /\ t.ref.c1 = "A"
            /\ t.ref.r1 = Len(ws0) + 1
            /\ t.ref.c2 = GetColumnLetter(Len(df0.names))
            /\ t.ref.r2 = DataRow(df0.n)
            /\ t.headerRowCount = 1
            /\ t.totalsRowCount = 0

\* the longest text rendering among the cells of column c that hold a value
RenderedMax(c) ==
    LET lens == { StrLen(ws[r][c].value) : r \in { q \in DOMAIN ws : ws[q][c].value.t # "none" } }
    IN IF lens = {} THEN 0 ELSE CHOOSE m \in lens : \A x \in lens : x <= m

\* C9: after create_workbook every column's width is (L + 2) * 1.4, L the
\* longest text rendering of a value in that column, header included, empty
\* cells left out.
C9_WidthFromLongestRendering ==
    Populated =>
        \A c \in DOMAIN ws[1] : width[GetColumnLetter(c)] = (RenderedMax(c) + 2) * 14

SaveLoopEnded ==
    \/ phase = "done" /\ saved /\ out = <<"File saved">>
    \/ phase = "done" /\ ~saved /\ out = <<"File not saved">>
    \/ phase = "failed" /\ ~saved /\ out = <<>>

\* C10 as stated: every execution of the save loop ends after finitely many
\* save attempts, saved with "File saved" printed, or with "File not saved"
\* printed, or stopped by an unhandled failure.
C10_SaveLoopTerminates == (phase = "save") ~> SaveLoopEnded

\* C10 (amended): the loop has no bound of its own: each save attempt either
\* ends it (saved with "File saved" printed, or stopped by an unhandled
\* failure) or fails on the lock and prompts, and each prompt either ends it
\* with "File not saved" printed or, on 'y', leads to one more attempt.
C10_EndsOrPromptsAgain ==
    /\ (phase = "save") ~> (SaveLoopEnded \/ (phase = "prompt" /\ last = "locked"))
    /\ (phase = "prompt") ~> (SaveLoopEnded \/ (phase = "save" /\ answer = "y"))
    /\ [](phase \in {"done", "failed"} /\ last # "none" => SaveLoopEnded)

C10_Witness ==
    /\ phase = "save" /\ answer = "y" /\ last = "locked" /\ out = <<>>

====
